---- MODULE Spec2Model ----
(***************************************************************************)
(* A model of src/crazier.py: CompleteSECCompanySearch.                    *)
(*                                                                         *)
(* Python strings are TLA+ strings.  A JSON / dict value that may be       *)
(* missing, null or a string is a record [k, v] (see Missing, None, Str).  *)
(* The remote services are part of the state: `directory` is the content   *)
(* of company_tickers.json, `db` the content of the submissions service;   *)
(* a request may also fail in transport.                                   *)
(***************************************************************************)
EXTENDS Integers, Sequences, FiniteSets, TLC

VARIABLES
    entry,            \* the public method the caller invoked
    pc,               \* position of the (single) thread of control
    error,            \* exception that left the entry method, "" when none
    company_name,     \* argument company_name of the entry method
    include_cik,      \* argument include_cik (None or a string)
    directory,        \* directory service: what company_tickers.json holds
    db,               \* profile service: padded identifier -> submissions JSON
    companies_data,   \* search_public_companies: what _make_request returned (line 88)
    cik_result,       \* comprehensive_company_search: cik_result (line 336)
    public_matches,   \* comprehensive_company_search: candidate list
    fetched,          \* history: per processed candidate, whether enhanced_data was a profile
    idx,              \* comprehensive_company_search: loop position in public_matches[:5]
    all_results,      \* comprehensive_company_search: all_results
    cik,              \* argument cik of the running *_by_cik / get_enhanced call
    submissions_data, \* get_enhanced_submissions_data: the JSON being enhanced
    accession_number, \* parse_form_d_filing: argument accession_number
    url_i,            \* parse_form_d_filing: position in possible_urls
    slept,            \* time.sleep(base_delay) ran and no request was sent since
    last_request,     \* the most recent outbound request and whether a delay preceded it
    tried,            \* requests of the running parse_form_d_filing call, in order: [url, k]
    parse_calls,      \* arguments of the parse_form_d_filing calls of the running get_enhanced call
    ret               \* value returned by the entry method

vars == <<entry, pc, error, company_name, include_cik, directory, db,
          companies_data, cik_result, public_matches, fetched, idx, all_results, cik, submissions_data,
          accession_number, url_i, slept, last_request, tried, parse_calls, ret>>

----------------------------------------------------------------------------
(* Python values *)

\* a key that is not in the dict
Missing == [k |-> "missing", v |-> ""]
\* JSON null / Python None
None == [k |-> "none", v |-> ""]
\* a string value
Str(s) == [k |-> "str", v |-> s]

\* Python truthiness of an optional string: None and "" are false
Truthy(x) == x.k = "str" /\ x.v # ""

----------------------------------------------------------------------------
(* Python str operations *)

UpperCase == <<"A","B","C","D","E","F","G","H","I","J","K","L","M",
               "N","O","P","Q","R","S","T","U","V","W","X","Y","Z">>
LowerCase == <<"a","b","c","d","e","f","g","h","i","j","k","l","m",
               "n","o","p","q","r","s","t","u","v","w","x","y","z">>

\* str.lower() on one character
LowerChar(c) ==
    IF \E i \in 1..26 : UpperCase[i] = c
    THEN LowerCase[CHOOSE i \in 1..26 : UpperCase[i] = c]
    ELSE c

RECURSIVE Lower(_)
\* str.lower()
Lower(s) ==
    IF s = "" THEN ""
    ELSE LowerChar(SubSeq(s, 1, 1)) \o Lower(SubSeq(s, 2, Len(s)))

\* Python `sub in s`
Contains(sub, s) ==
    \E i \in 1..(Len(s) - Len(sub) + 1) : SubSeq(s, i, i + Len(sub) - 1) = sub

\* Python s.endswith(suffix)
EndsWith(s, suffix) ==
    /\ Len(suffix) <= Len(s)
    /\ SubSeq(s, Len(s) - Len(suffix) + 1, Len(s)) = suffix

RECURSIVE Repeat(_, _)
\* Python s * n
Repeat(s, n) == IF n <= 0 THEN "" ELSE s \o Repeat(s, n - 1)

----------------------------------------------------------------------------
(* Static tables of __init__ and classify_industry_from_name *)

\* self.sic_mapping
sic_mapping ==
    [c \in {"5812", "7372", "3571", "7373", "3674", "6211", "2834", "3711", "4813", "1311",
            "2911", "5961", "7370", "8742", "2080", "3577", "6141", "4899", "7371", "7389"} |->
        CASE c = "5812" -> "Eating Places/Restaurants"
          [] c = "7372" -> "Prepackaged Software"
          [] c = "3571" -> "Electronic Computers"
          [] c = "7373" -> "Computer Integrated Systems Design"
          [] c = "3674" -> "Semiconductors & Related Devices"
          [] c = "6211" -> "Security Brokers & Dealers"
          [] c = "2834" -> "Pharmaceutical Preparations"
          [] c = "3711" -> "Motor Vehicles & Car Bodies"
          [] c = "4813" -> "Telephone Communications"
          [] c = "1311" -> "Crude Petroleum & Natural Gas"
          [] c = "2911" -> "Petroleum Refining"
          [] c = "5961" -> "Catalog & Mail-Order Houses"
          [] c = "7370" -> "Computer Programming & Data Processing"
          [] c = "8742" -> "Management Consulting Services"
          [] c = "2080" -> "Beverages"
          [] c = "3577" -> "Computer Peripheral Equipment"
          [] c = "6141" -> "Personal Credit Institutions"
          [] c = "4899" -> "Communications Services"
          [] c = "7371" -> "Computer Programming Services"
          [] c = "7389" -> "Business Services, NEC"]

\* industry_keywords, in the dict's insertion (= iteration) order
industry_keywords == <<
    [industry |-> "Technology",
     keywords |-> <<"software", "tech", "systems", "data", "cloud", "cyber", "digital",
                    "computer", "platform", "analytics", "ai", "artificial intelligence",
                    "app", "mobile", "web", "internet", "online">>],
    [industry |-> "Financial Services",
     keywords |-> <<"bank", "financial", "capital", "investment", "fund", "credit",
                    "loan", "mortgage", "insurance", "securities", "finance">>],
    [industry |-> "Healthcare",
     keywords |-> <<"pharma", "medical", "health", "bio", "therapeutic", "clinical",
                    "hospital", "drug", "medicine", "healthcare">>],
    [industry |-> "Retail",
     keywords |-> <<"retail", "store", "shop", "market", "grocery", "consumer", "commerce">>],
    [industry |-> "Energy",
     keywords |-> <<"energy", "oil", "gas", "petroleum", "solar", "wind", "utility",
                    "electric", "power", "renewable">>],
    [industry |-> "Manufacturing",
     keywords |-> <<"manufacturing", "industrial", "auto", "motor", "machinery",
                    "equipment", "materials", "production">>],
    [industry |-> "Food & Beverage",
     keywords |-> <<"food", "restaurant", "coffee", "beverage", "dining", "kitchen",
                    "cafe", "bar", "brewery", "wine">>],
    [industry |-> "Real Estate",
     keywords |-> <<"real estate", "property", "construction", "building", "development">>],
    [industry |-> "Transportation",
     keywords |-> <<"transport", "logistics", "shipping", "delivery", "freight">>],
    [industry |-> "Media",
     keywords |-> <<"media", "entertainment", "publishing", "content", "broadcast", "film">>] >>

----------------------------------------------------------------------------
(* classify_industry_from_name *)

\* any(keyword in name_lower for keyword in keywords)
AnyKeyword(keywords, name_lower) ==
    \E j \in 1..Len(keywords) : Contains(keywords[j], name_lower)

\* mutant of FirstIndustry: the loop does not stop at the first match, the last one wins
FirstIndustryNoBreak(name_lower) ==
    LET hits == {i \in 1..Len(industry_keywords) :
                    AnyKeyword(industry_keywords[i].keywords, name_lower)}
    IN  IF hits = {} THEN 0 ELSE CHOOSE i \in hits : \A j \in hits : i >= j

\* the for loop over industry_keywords.items(): the first entry that matches, 0 when none
FirstIndustry(name_lower) ==
    LET hits == {i \in 1..Len(industry_keywords) :
                    AnyKeyword(industry_keywords[i].keywords, name_lower)}
    IN  IF hits = {} THEN 0 ELSE CHOOSE i \in hits : \A j \in hits : i <= j

classify_industry_from_name(name) ==
    LET name_lower == Lower(name)
        i == FirstIndustry(name_lower)
    IN  IF i = 0
        THEN [industry_category |-> "Unknown", confidence |-> "low"]
        ELSE [industry_category |-> industry_keywords[i].industry, confidence |-> "medium"]

----------------------------------------------------------------------------
(* extract_comprehensive_industry_info *)

\* the dict parse_form_d_filing starts from
EmptyFormD ==
    [industry_category |-> None, business_description |-> None,
     revenue_range |-> None, offering_amount |-> None]

\* the key form_d_info is not in the dict / the value of industry_info['form_d_info'] is None
NoFormD == [k |-> "none", v |-> EmptyFormD]
\* the key form_d_info holds this dict
FormD(info) == [k |-> "dict", v |-> info]

\* the truncation length of the business description
DescLimit == 300

\* the marker appended to a truncated description
Ellipsis == "..."

\* mutant of TruncateDescription: the slice keeps one character more
TruncateDescriptionOneMore(desc) ==
    IF Len(desc) > DescLimit THEN SubSeq(desc, 1, DescLimit + 1) \o Ellipsis ELSE desc

\* lines 263-265: desc[:300] + "..." when len(desc) > 300
TruncateDescription(desc) ==
    IF Len(desc) > DescLimit THEN SubSeq(desc, 1, DescLimit) \o Ellipsis ELSE desc

\* lines 237-245: the initial industry_info
InitialIndustryInfo ==
    [sic_code |-> None, sic_description |-> None, business_description |-> None,
     industry_category |-> None, company_type |-> None, form_d_info |-> NoFormD,
     source |-> "submissions", confidence |-> Missing]

\* lines 248-252
WithCompanyType(info, data) ==
    [info EXCEPT !.company_type = IF data.tickers # <<>> THEN Str("public") ELSE Str("private")]

\* lines 255-259
WithSic(info, data) ==
    IF Truthy(data.sic)
    THEN [info EXCEPT !.sic_code = data.sic,
                      !.sic_description =
                          IF data.sic.v \in DOMAIN sic_mapping
                          THEN Str(sic_mapping[data.sic.v])
                          ELSE Str("SIC " \o data.sic.v)]
    ELSE info

\* line 264 raises TypeError: len() of None
DescriptionRaises(data) == data.businessDescription.k = "none"

\* lines 262-266
WithDescription(info, data) ==
    IF data.businessDescription.k = "str"
    THEN [info EXCEPT !.business_description = Str(TruncateDescription(data.businessDescription.v))]
    ELSE info

\* lines 269-272
WithFormD(info, data) ==
    IF data.form_d_info.k = "dict"
    THEN [info EXCEPT !.form_d_info = data.form_d_info,
                      !.industry_category =
                          IF Truthy(data.form_d_info.v.industry_category)
                          THEN data.form_d_info.v.industry_category
                          ELSE @]
    ELSE info

\* line 275: not any([sic_code, industry_category, business_description])
FallbackCondition(info) ==
    ~(Truthy(info.sic_code) \/ Truthy(info.industry_category) \/ Truthy(info.business_description))

\* lines 275-278
WithNameFallback(info, name) ==
    IF FallbackCondition(info)
    THEN LET c == classify_industry_from_name(name)
         IN  [info EXCEPT !.industry_category = Str(c.industry_category),
                          !.confidence = Str(c.confidence),
                          !.source = "name_classification"]
    ELSE info

\* the whole method; an exception inside the try block is swallowed (lines 280-283)
extract_comprehensive_industry_info(data, name) ==
    LET a == WithSic(WithCompanyType(InitialIndustryInfo, data), data)
    IN  IF DescriptionRaises(data)
        THEN a
        ELSE WithNameFallback(WithFormD(WithDescription(a, data), data), name)

----------------------------------------------------------------------------
(* identifier formatting *)

\* the fixed identifier width of zfill(10)
CikWidth == 10

Digits == {"0", "1", "2", "3", "4", "5", "6", "7", "8", "9"}

\* mutant of Zfill: the zeros are appended instead of prepended
ZfillRight(s, width) ==
    IF Len(s) >= width THEN s ELSE s \o Repeat("0", width - Len(s))

\* Python s.zfill(width): zeros go after a leading sign
Zfill(s, width) ==
    IF Len(s) >= width THEN s
    ELSE IF Len(s) > 0 /\ SubSeq(s, 1, 1) \in {"+", "-"}
         THEN SubSeq(s, 1, 1) \o Repeat("0", width - Len(s)) \o SubSeq(s, 2, Len(s))
         ELSE Repeat("0", width - Len(s)) \o s

IsDigits(s) == Len(s) > 0 /\ \A i \in 1..Len(s) : SubSeq(s, i, i) \in Digits

RECURSIVE StripZeros(_)
\* the decimal digits of int(s) for a digit string s
StripZeros(s) ==
    IF Len(s) > 1 /\ SubSeq(s, 1, 1) = "0" THEN StripZeros(SubSeq(s, 2, Len(s))) ELSE s

\* int(cik) raises ValueError (line 169); identifiers here carry no sign, blank or underscore
IntRaises(s) == ~IsDigits(s)

\* str(int(cik)) (line 169)
cik_no_zeros(s) == StripZeros(s)

----------------------------------------------------------------------------
(* search_public_companies: the matching loop, lines 93-111 *)

TickersUrl == "https://www.sec.gov/files/company_tickers.json"

\* line 100-102
NameMatches(company_name_lower, title_lower, ticker_lower) ==
    \/ Contains(company_name_lower, title_lower)
    \/ Contains(company_name_lower, ticker_lower)
    \/ Contains(title_lower, company_name_lower)

RECURSIVE MatchLoop(_, _, _, _)
\* the for loop of lines 96-109 from entry i on; company['title'] (line 97) and
\* company['ticker'] (line 107) raise KeyError when the key is missing
MatchLoop(entries, i, name, matches) ==
    IF i > Len(entries) THEN [raised |-> FALSE, matches |-> matches]
    ELSE LET company == entries[i]
         IN  IF company.title.k # "str" THEN [raised |-> TRUE, matches |-> matches]
             ELSE LET title_lower == Lower(company.title.v)
                      ticker_lower == IF company.ticker.k = "str" THEN Lower(company.ticker.v) ELSE ""
                  IN  IF NameMatches(Lower(name), title_lower, ticker_lower)
                      THEN IF company.ticker.k # "str"
                           THEN [raised |-> TRUE, matches |-> matches]
                           ELSE MatchLoop(entries, i + 1, name,
                                    Append(matches,
                                        [cik |-> Zfill(company.cik_str, CikWidth),
                                         name |-> company.title.v,
                                         ticker |-> company.ticker.v,
                                         company_type |-> "public",
                                         submissions_data |-> [k |-> "missing"]]))
                      ELSE MatchLoop(entries, i + 1, name, matches)

\* lines 90-111 on the value _make_request returned (ok = FALSE: None)
search_public_companies(ok, entries, name) ==
    IF ~ok \/ entries = <<>>
    THEN [raised |-> FALSE, matches |-> <<>>]
    ELSE MatchLoop(entries, 1, name, <<>>)

----------------------------------------------------------------------------
(* search_by_cik_direct, lines 118-130 *)

SubmissionsUrl(cik_formatted) ==
    "https://data.sec.gov/submissions/CIK" \o cik_formatted \o ".json"

\* lines 123-129: the candidate built from a received profile
CikCandidate(cik_formatted, data) ==
    [cik |-> cik_formatted,
     name |-> IF data.name.k = "missing" THEN "Unknown" ELSE data.name.v,
     ticker |-> IF data.tickers # <<>> THEN data.tickers[1] ELSE "",
     company_type |-> IF data.tickers # <<>> THEN "public" ELSE "private",
     submissions_data |-> [k |-> "dict", v |-> data]]

----------------------------------------------------------------------------
(* get_enhanced_submissions_data: the Form D scan, lines 220-231 *)

\* mutant of ScanForms: the loop stops at the first "D" entry whatever its accession number
ScanFormsFirstD(recent, i) ==
    LET ds == {j \in i..Len(recent.form) : recent.form[j] = "D"}
        accs == IF recent.hasAccession THEN recent.accessionNumber ELSE <<"">>
    IN  IF ds = {} THEN [k |-> "none"]
        ELSE LET j == CHOOSE x \in ds : \A y \in ds : x <= y
             IN  IF j > Len(accs) THEN [k |-> "raise"]
                 ELSE IF accs[j] # "" THEN [k |-> "parse", acc |-> accs[j], i |-> j]
                      ELSE [k |-> "none"]

RECURSIVE ScanForms(_, _)
\* the loop of lines 224-231 from (1-based) position i on.
\*   [k |-> "none"]              no parse_form_d_filing call
\*   [k |-> "parse", acc, i]     the call, with the accession number found at i
\*   [k |-> "raise"]             IndexError at line 226
ScanForms(recent, i) ==
    IF i > Len(recent.form) THEN [k |-> "none"]
    ELSE IF recent.form[i] = "D"
         THEN LET accs == IF recent.hasAccession THEN recent.accessionNumber ELSE <<"">>
              IN  IF i > Len(accs) THEN [k |-> "raise"]
                  ELSE IF accs[i] # "" THEN [k |-> "parse", acc |-> accs[i], i |-> i]
                       ELSE ScanForms(recent, i + 1)
         ELSE ScanForms(recent, i + 1)

\* lines 220-231: what get_enhanced_submissions_data does with a received profile
FormDScan(data) ==
    IF data.filings.present THEN ScanForms(data.filings, 1) ELSE [k |-> "none"]

----------------------------------------------------------------------------
(* parse_form_d_filing, lines 160-208 *)

\* lines 173-177
possible_urls(cik_arg, acc) ==
    LET base == "https://www.sec.gov/Archives/edgar/data/" \o cik_no_zeros(cik_arg) \o "/" \o acc
    IN  << base \o "/xslFormDX01/primary_doc.xml",
           base \o "/primary_doc.xml",
           base \o ".txt" >>

\* lines 187-192
FormDCategory(content) ==
    IF Contains("Technology", content) THEN Str("Technology")
    ELSE IF Contains("Financial", content) \/ Contains("Banking", content)
         THEN Str("Financial Services")
         ELSE IF Contains("Health", content) \/ Contains("Medical", content)
              THEN Str("Healthcare")
              ELSE None

AmountLabel == "Total Offering Amount"
AmountChars == Digits \union {","}

RECURSIVE AmountRun(_, _)
\* the group ([0-9,]+) matched greedily from position q
AmountRun(content, q) ==
    IF q <= Len(content) /\ SubSeq(content, q, q) \in AmountChars
    THEN SubSeq(content, q, q) \o AmountRun(content, q + 1)
    ELSE ""

\* lines 196-198: re.search(r'Total Offering Amount.*?\$([0-9,]+)', content); `.` matches
\* no line break, `.*?` stops at the first "$" that a digit or comma follows
OfferingAmount(content) ==
    LET L == Len(AmountLabel)
        ends(p) == {q \in (p + L)..(Len(content) - 1) :
                       /\ SubSeq(content, q, q) = "$"
                       /\ SubSeq(content, q + 1, q + 1) \in AmountChars
                       /\ \A r \in (p + L)..(q - 1) : SubSeq(content, r, r) # "\n"}
        starts == {p \in 1..(Len(content) - L + 1) :
                       SubSeq(content, p, p + L - 1) = AmountLabel /\ ends(p) # {}}
    IN  IF starts = {} THEN None
        ELSE LET p == CHOOSE x \in starts : \A y \in starts : x <= y
                 q == CHOOSE x \in ends(p) : \A y \in ends(p) : x <= y
             IN  Str(AmountRun(content, q + 1))

\* lines 182-198: the industry_info after a 200 response from url
ParseFormDContent(url, content) ==
    IF EndsWith(url, ".xml")
    THEN [EmptyFormD EXCEPT !.industry_category = FormDCategory(content),
                            !.offering_amount = OfferingAmount(content)]
    ELSE EmptyFormD

----------------------------------------------------------------------------
(* comprehensive_company_search: the result record and the loop, lines 341-366 *)

\* public_matches[:5]
MaxProcessed == 5

Min(a, b) == IF a < b THEN a ELSE b

\* mutant of ClassifierName: the caller's query is handed to the classifier
ClassifierNameQuery(match, query) == query

\* the name handed to extract_comprehensive_industry_info at line 348
ClassifierName(match, query) == match.name

\* mutant of ResultRecord: the company type is taken from the candidate's hint
ResultRecordFromHint(match, enhanced_data, query) ==
    LET industry_info == extract_comprehensive_industry_info(enhanced_data, ClassifierName(match, query))
    IN  [cik |-> match.cik,
         name |-> match.name,
         ticker |-> match.ticker,
         company_type |-> Str(match.company_type),
         sic_code |-> industry_info.sic_code,
         sic_description |-> industry_info.sic_description,
         business_description |-> industry_info.business_description,
         industry_category |-> industry_info.industry_category,
         form_d_info |-> industry_info.form_d_info,
         data_source |-> industry_info.source,
         filing_count |-> IF enhanced_data.filings.present THEN Len(enhanced_data.filings.form) ELSE 0]

\* lines 350-362
ResultRecord(match, enhanced_data, query) ==
    LET industry_info == extract_comprehensive_industry_info(enhanced_data, ClassifierName(match, query))
    IN  [cik |-> match.cik,
         name |-> match.name,
         ticker |-> match.ticker,
         company_type |-> industry_info.company_type,
         sic_code |-> industry_info.sic_code,
         sic_description |-> industry_info.sic_description,
         business_description |-> industry_info.business_description,
         industry_category |-> industry_info.industry_category,
         form_d_info |-> industry_info.form_d_info,
         data_source |-> industry_info.source,
         filing_count |-> IF enhanced_data.filings.present THEN Len(enhanced_data.filings.form) ELSE 0]

\* mutant of ProcessedCount: the candidate list is not sliced
ProcessedCountUncapped(matches) == Len(matches)

\* the slice bound of line 341
ProcessedCount(matches) == Min(Len(matches), MaxProcessed)

\* line 341: the loop head at (1-based) position i: the next get_enhanced_submissions_data
\* call (line 345), or line 366 when the slice is exhausted
LoopStep(matches, results, i) ==
    /\ all_results' = results
    /\ IF i <= ProcessedCount(matches)
       THEN /\ idx' = i
            /\ cik' = matches[i].cik
            /\ pc' = "enhanced_sleep"
            /\ ret' = ret
       ELSE /\ idx' = i
            /\ cik' = cik
            /\ pc' = "done"
            /\ ret' = results

\* get_enhanced_submissions_data returns `enhanced` ([k |-> "none"] or [k |-> "dict", v]):
\* to its caller when it is the entry method, else to line 346
ReturnEnhanced(enhanced) ==
    /\ submissions_data' = enhanced
    /\ accession_number' = ""
    /\ url_i' = 0
    /\ IF entry = "get_enhanced_submissions_data"
       THEN /\ ret' = enhanced
            /\ pc' = "done"
            /\ UNCHANGED <<idx, all_results, cik, fetched>>
       ELSE /\ fetched' = Append(fetched, enhanced.k = "dict")
            /\ LoopStep(public_matches,
                        IF enhanced.k = "dict"
                        THEN Append(all_results,
                                    ResultRecord(public_matches[idx], enhanced.v, company_name))
                        ELSE all_results,
                        idx + 1)

----------------------------------------------------------------------------
(* the remote services *)

NoRequest == [url |-> "", delayed |-> TRUE]

\* requests.get(url): the request goes out; `slept` tells whether a delay preceded it
SendRequest(url) ==
    /\ last_request' = [url |-> url, delayed |-> slept]
    /\ slept' = FALSE

\* what _make_request can return for a profile request: None (RequestException: transport
\* failure, non-2xx, malformed JSON) or the JSON the service holds for the identifier
ProfileResponses(cik_formatted) ==
    {[k |-> "none"]} \union
    (IF cik_formatted \in DOMAIN db THEN {[k |-> "dict", v |-> db[cik_formatted]]} ELSE {})

\* document texts the filing-document service may hold
Contents ==
    { "",
      "<industryGroupType>Other Technology</industryGroupType> Total Offering Amount: $1,000,000",
      "Commercial Banking",
      "Total Offering Amount\n$5 Health Care" }

\* outcomes of the requests.get of line 181
DocumentOutcomes ==
    {[k |-> "exception", content |-> ""], [k |-> "status", content |-> ""]}
    \union {[k |-> "ok", content |-> c] : c \in Contents}

----------------------------------------------------------------------------
(* actions *)

\* _make_request, line 63: time.sleep(self.base_delay)
MakeRequestSleep ==
    /\ pc \in {"directory_sleep", "cik_sleep", "enhanced_sleep"}
    /\ slept' = TRUE
    /\ pc' = CASE pc = "directory_sleep" -> "directory_get"
               [] pc = "cik_sleep" -> "cik_get"
               [] pc = "enhanced_sleep" -> "enhanced_get"
    /\ UNCHANGED <<entry, error, company_name, include_cik, directory, db, companies_data,
                   cik_result, public_matches, fetched, idx, all_results, cik,
                   submissions_data, accession_number, url_i, last_request, tried,
                   parse_calls, ret>>

\* search_public_companies from the request of line 88 (via _make_request line 64) on,
\* then comprehensive_company_search lines 334-341
SearchPublicCompanies ==
    /\ pc = "directory_get"
    /\ SendRequest(TickersUrl)
    /\ \E ok \in BOOLEAN :
          LET r == search_public_companies(ok, directory, company_name)
          IN  /\ companies_data' = IF ok THEN [k |-> "dict", v |-> directory] ELSE [k |-> "none"]
              /\ IF r.raised
                 THEN /\ pc' = "raised"
                      /\ error' = "KeyError"
                      /\ UNCHANGED <<public_matches, idx, all_results, cik, ret>>
                 ELSE /\ public_matches' = r.matches
                      /\ error' = error
                      /\ IF Truthy(include_cik)
                         THEN /\ pc' = "cik_sleep"
                              /\ cik' = include_cik.v
                              /\ UNCHANGED <<idx, all_results, ret>>
                         ELSE LoopStep(r.matches, <<>>, 1)
    /\ UNCHANGED <<entry, company_name, include_cik, directory, db, cik_result, fetched,
                   submissions_data, accession_number, url_i, tried, parse_calls>>

\* search_by_cik_direct from the request of line 121 on, then (when called from
\* comprehensive_company_search) lines 337-341
SearchByCikDirect ==
    /\ pc = "cik_get"
    /\ LET cik_formatted == Zfill(cik, CikWidth)
       IN  /\ SendRequest(SubmissionsUrl(cik_formatted))
           /\ \E resp \in ProfileResponses(cik_formatted) :
                 LET found == IF resp.k = "dict"
                              THEN <<CikCandidate(cik_formatted, resp.v)>>
                              ELSE <<>>
                 IN  /\ cik_result' = resp
                     /\ IF entry = "search_by_cik_direct"
                        THEN /\ ret' = found
                             /\ pc' = "done"
                             /\ UNCHANGED <<public_matches, idx, all_results, cik>>
                        ELSE /\ public_matches' = public_matches \o found
                             /\ LoopStep(public_matches \o found, <<>>, 1)
    /\ UNCHANGED <<entry, error, company_name, include_cik, directory, db, companies_data,
                   fetched, submissions_data, accession_number, url_i, tried, parse_calls>>

\* get_enhanced_submissions_data from the request of line 215 on, up to the first
\* document request of parse_form_d_filing or to its return
GetEnhancedSubmissionsData ==
    /\ pc = "enhanced_get"
    /\ LET cik_formatted == Zfill(cik, CikWidth)
       IN  /\ SendRequest(SubmissionsUrl(cik_formatted))
           /\ \E resp \in ProfileResponses(cik_formatted) :
                 IF resp.k = "none"
                 THEN /\ parse_calls' = <<>>
                      /\ tried' = <<>>
                      /\ error' = error
                      /\ ReturnEnhanced([k |-> "none"])
                 ELSE LET scan == FormDScan(resp.v)
                      IN  CASE scan.k = "raise" ->
                                 /\ pc' = "raised"
                                 /\ error' = "IndexError"
                                 /\ parse_calls' = <<>>
                                 /\ tried' = <<>>
                                 /\ submissions_data' = resp
                                 /\ UNCHANGED <<idx, all_results, cik, fetched,
                                                accession_number, url_i, ret>>
                            [] scan.k = "none" ->
                                 /\ parse_calls' = <<>>
                                 /\ tried' = <<>>
                                 /\ error' = error
                                 /\ ReturnEnhanced(resp)
                            [] scan.k = "parse" ->
                                 /\ parse_calls' = <<[cik |-> cik, accession_number |-> scan.acc]>>
                                 /\ tried' = <<>>
                                 /\ error' = error
                                 /\ IF IntRaises(cik)
                                    THEN ReturnEnhanced(
                                            [resp EXCEPT !.v.form_d_info = FormD(EmptyFormD)])
                                    ELSE /\ pc' = "formd_get"
                                         /\ submissions_data' = resp
                                         /\ accession_number' = scan.acc
                                         /\ url_i' = 1
                                         /\ UNCHANGED <<idx, all_results, cik, fetched, ret>>
    /\ UNCHANGED <<entry, company_name, include_cik, directory, db, companies_data,
                   cik_result, public_matches>>

\* mutant of LoopBreaks: the loop is left only when the response yielded a signal
LoopBreaksOnSignal(out, info) == out.k = "ok" /\ info # EmptyFormD

\* lines 182 and 200: the loop is left (break) after a response with status 200
LoopBreaks(out, info) == out.k = "ok"

\* parse_form_d_filing: one pass of the loop of lines 179-203, the request of line 181
ParseFormDFiling ==
    /\ pc = "formd_get"
    /\ LET url == possible_urls(cik, accession_number)[url_i]
       IN  /\ SendRequest(url)
           /\ \E out \in DocumentOutcomes :
                 /\ tried' = Append(tried, [url |-> url, k |-> out.k])
                 /\ IF LoopBreaks(out, ParseFormDContent(url, out.content))
                    THEN ReturnEnhanced(
                            [submissions_data EXCEPT
                                !.v.form_d_info = FormD(ParseFormDContent(url, out.content))])
                    ELSE IF url_i < Len(possible_urls(cik, accession_number))
                         THEN /\ url_i' = url_i + 1
                              /\ UNCHANGED <<pc, idx, all_results, cik, fetched,
                                             submissions_data, accession_number, ret>>
                         ELSE ReturnEnhanced(
                                 [submissions_data EXCEPT !.v.form_d_info = FormD(EmptyFormD)])
    /\ UNCHANGED <<entry, error, company_name, include_cik, directory, db, companies_data,
                   cik_result, public_matches, parse_calls>>

\* a direct call of extract_comprehensive_industry_info(submissions_data, company_name)
ExtractComprehensiveIndustryInfo ==
    /\ pc = "extract"
    /\ ret' = extract_comprehensive_industry_info(submissions_data.v, company_name)
    /\ pc' = "done"
    /\ UNCHANGED <<entry, error, company_name, include_cik, directory, db, companies_data,
                   cik_result, public_matches, fetched, idx, all_results, cik,
                   submissions_data, accession_number, url_i, slept, last_request, tried,
                   parse_calls>>

\* a direct call of classify_industry_from_name(company_name)
ClassifyIndustryFromName ==
    /\ pc = "classify"
    /\ ret' = classify_industry_from_name(company_name)
    /\ pc' = "done"
    /\ UNCHANGED <<entry, error, company_name, include_cik, directory, db, companies_data,
                   cik_result, public_matches, fetched, idx, all_results, cik,
                   submissions_data, accession_number, url_i, slept, last_request, tried,
                   parse_calls>>

----------------------------------------------------------------------------
(* the caller's inputs and the services' content *)

NoFilings == [present |-> FALSE, form |-> <<>>, accessionNumber |-> <<>>, hasAccession |-> FALSE]

Filings(form, accs) ==
    [present |-> TRUE, form |-> form, accessionNumber |-> accs, hasAccession |-> TRUE]

\* a submissions JSON
Profile(name, tickers, sic, desc, filings) ==
    [name |-> name, tickers |-> tickers, sic |-> sic, businessDescription |-> desc,
     filings |-> filings, form_d_info |-> NoFormD]

\* accession references, one per filing position
Accessions ==
    << "0001518449-11-000001", "0001518449-12-000002", "0001518449-13-000003",
       "0001518449-14-000004", "0001518449-15-000005", "0001518449-16-000006" >>

\* a text of n characters
Text(n) == SubSeq(Repeat("We build data tools. ", (n \div 21) + 1), 1, n)

\* the tickers listing; a directory is a prefix of it, possibly followed by a malformed entry
Listing == <<
    [cik_str |-> "1318605", title |-> Str("Tesla, Inc."),       ticker |-> Str("TSLA")],
    [cik_str |-> "2001",    title |-> Str("Tesla Energy Fund"), ticker |-> Str("TEF")],
    [cik_str |-> "2003",    title |-> Str("TESLA MOTORS"),      ticker |-> Str("TSLM")],
    [cik_str |-> "2004",    title |-> Str("Tesla Bank"),        ticker |-> Str("TSB")],
    [cik_str |-> "1518449", title |-> Str("Hexify Cloud"),      ticker |-> Str("HEXC")],
    [cik_str |-> "2005",    title |-> Str("Tesla Foods"),       ticker |-> Str("TSF")],
    [cik_str |-> "2006",    title |-> Str("Tesla Film"),        ticker |-> Str("TSLF")],
    [cik_str |-> "2007",    title |-> Str("Acme"),              ticker |-> Str("ACME")] >>

\* the longest directory prefix
MaxDirectory == 7

MalformedEntries ==
    { <<>>,
      <<[cik_str |-> "3001", title |-> Str("Tesla Holdings"), ticker |-> Missing]>>,
      <<[cik_str |-> "3002", title |-> Missing, ticker |-> Str("NOTI")]>> }

Directories ==
    {SubSeq(Listing, 1, n) \o tail : n \in 0..Min(MaxDirectory, Len(Listing)), tail \in MalformedEntries}

QueryNames == {"Tesla", "tsla", "Hexify", "Acme Cloud Systems"}

IncludeCiks == {None, Str(""), Str("1518449"), Str("2001"), Str("77")}

\* what the profile service holds during a comprehensive_company_search
PipelineDb ==
    [c \in {"0001318605", "0000002001", "0000002003", "0001518449", "0000002004", "0000002005"} |->
        CASE c = "0001318605" ->
                 Profile(Str("Tesla, Inc."), <<"TSLA">>, Str("3711"), Missing,
                         Filings(<<"10-K", "8-K">>, <<Accessions[1], Accessions[2]>>))
          [] c = "0000002001" ->
                 Profile(Str("Tesla Energy Fund LP"), <<>>, Str(""), Str(Text(DescLimit + 1)),
                         Filings(<<"D">>, <<"">>))
          [] c = "0001518449" ->
                 Profile(Str("Hexify Bank Inc"), <<>>, Missing, Missing,
                         Filings(<<"D/A", "D", "D">>, <<Accessions[1], Accessions[2], Accessions[3]>>))
          [] c = "0000002004" ->
                 Profile(Str("Tesla Bank"), <<"TSB">>, Missing, None, NoFilings)
          [] c = "0000002005" ->
                 Profile(Missing, <<>>, Str("9999"), Str(""), NoFilings)
          [] c = "0000002003" ->
                 Profile(Str("Tesla Motors"), <<>>, Missing, Missing, NoFilings)]

----------------------------------------------------------------------------
(* comprehensive_company_search(company_name, include_cik) *)

Init ==
    /\ entry = "comprehensive_company_search"
    /\ pc = "directory_sleep"
    /\ error = ""
    /\ company_name \in QueryNames
    /\ include_cik \in IncludeCiks
    /\ directory \in Directories
    /\ db = PipelineDb
    /\ companies_data = [k |-> "none"]
    /\ cik_result = [k |-> "none"]
    /\ public_matches = <<>>
    /\ fetched = <<>>
    /\ idx = 0
    /\ all_results = <<>>
    /\ cik = ""
    /\ submissions_data = [k |-> "none"]
    /\ accession_number = ""
    /\ url_i = 0
    /\ slept = FALSE
    /\ last_request = NoRequest
    /\ tried = <<>>
    /\ parse_calls = <<>>
    /\ ret = <<>>

Next ==
    \/ MakeRequestSleep
    \/ SearchPublicCompanies
    \/ SearchByCikDirect
    \/ GetEnhancedSubmissionsData
    \/ ParseFormDFiling

Spec == Init /\ [][Next]_vars

----------------------------------------------------------------------------
(* Properties of comprehensive_company_search, checked under Spec *)

\* C4: every outbound request (directory, profile, Form D document) is immediately
\* preceded by the rate-limit delay: no request goes out without time.sleep before it.
C4_EveryRequestDelayed == last_request.delayed

\* the candidate a result was built from carries the type hint `hint`
HintOf(r, hint) ==
    \E i \in 1..Len(public_matches) :
        public_matches[i].cik = r.cik /\ public_matches[i].company_type = hint

\* C6: every aggregated result's company type is 'public' when the fetched profile has an
\* exchange symbol and 'private' when it has none, whatever the candidate's type hint.
C6_CompanyTypeFromProfile ==
    \A i \in 1..Len(all_results) :
        LET r == all_results[i]
        IN  /\ r.cik \in DOMAIN db
            /\ r.company_type = Str(IF Len(db[r.cik].tickers) > 0 THEN "public" ELSE "private")

\* C6 witness: a result of type private built from a directory candidate hinted public,
\* next to a public one.
C6_Witness ==
    /\ pc = "done"
    /\ \E i \in 1..Len(ret) : ret[i].company_type = Str("private") /\ HintOf(ret[i], "public")
    /\ \E i \in 1..Len(ret) : ret[i].company_type = Str("public")

\* C7: search_public_companies never raises to its caller, whatever the directory
\* request returned (a failure, or entries lacking a display name or an exchange symbol),
\* and yields no name match when the request failed.
C7_SearchPublicNeverRaises ==
    /\ ~(pc = "raised" /\ error = "KeyError")
    /\ (pc \notin {"directory_sleep", "directory_get"} /\ companies_data.k = "none") =>
          \A i \in 1..Len(public_matches) : public_matches[i].submissions_data.k = "dict"

\* the directory entry e matches the query (the rule of lines 100-102, on lower-cased text)
EntryMatches(e) ==
    LET q == Lower(company_name)
        t == Lower(e.title.v)
        k == Lower(e.ticker.v)
    IN  Contains(q, t) \/ Contains(q, k) \/ Contains(t, q)

RECURSIVE KeptPositions(_, _)
\* the positions i..Len(flags) whose flag is TRUE, in order
KeptPositions(flags, i) ==
    IF i > Len(flags) THEN <<>>
    ELSE (IF flags[i] THEN <<i>> ELSE <<>>) \o KeptPositions(flags, i + 1)

\* The candidate list is the name matches in directory order, followed by the
\* identifier-based candidate when an identifier was supplied and its lookup succeeded;
\* that candidate is processed only when there are fewer than 5 name matches.
C8_CandidateList ==
    LET names == IF companies_data.k = "dict" THEN SelectSeq(companies_data.v, EntryMatches) ELSE <<>>
        byId  == IF Truthy(include_cik) /\ cik_result.k = "dict" THEN 1 ELSE 0
    IN  /\ Len(public_matches) = Len(names) + byId
        /\ \A i \in 1..Len(names) :
              /\ public_matches[i].name = names[i].title.v
              /\ public_matches[i].company_type = "public"
        /\ byId = 1 =>
              /\ public_matches[Len(names) + 1].submissions_data = cik_result
              /\ Len(fetched) > Len(names) => Len(names) < 5

\* C8: the search returns at most 5 results: one, in candidate order, for each of the
\* first 5 candidates whose profile fetch succeeded and none for the others, every one
\* of the first 5 candidates having been tried.
C8_ResultsPerCandidate ==
    pc = "done" =>
        LET kept == KeptPositions(fetched, 1)
        IN  /\ C8_CandidateList
            /\ Len(ret) <= 5
            /\ Len(fetched) = (IF Len(public_matches) < 5 THEN Len(public_matches) ELSE 5)
            /\ Len(ret) = Len(kept)
            /\ \A j \in 1..Len(kept) :
                  /\ ret[j].cik = public_matches[kept[j]].cik
                  /\ ret[j].name = public_matches[kept[j]].name

\* C8 witness: six name matches and an identifier-based candidate, one of the first five
\* fetches absent, four results returned.
C8_Witness ==
    /\ pc = "done"
    /\ Len(public_matches) = 7
    /\ cik_result.k = "dict"
    /\ \E i \in 1..Len(fetched) : ~fetched[i] /\ i < Len(fetched)
    /\ Len(ret) = 4

\* the result r was classified by the name-keyword fallback (lines 274-278)
ByNameFallback(r) == r.data_source = "name_classification"

\* C11 as stated: whenever the name-keyword fallback fires for a candidate, the result's
\* industry category is the one the keywords of the caller's original query name give.
C11_CategoryFromQueryName ==
    pc = "done" =>
        \A i \in 1..Len(ret) :
            ByNameFallback(ret[i]) =>
                ret[i].industry_category = Str(classify_industry_from_name(company_name).industry_category)

\* C11 amended: whenever the name-keyword fallback fires for a candidate, the result's
\* industry category is the one the keywords of that candidate's display name give
\* (the name the result record carries), whatever the caller's query was.
C11_CategoryFromCandidateName ==
    pc = "done" =>
        \A i \in 1..Len(ret) :
            ByNameFallback(ret[i]) =>
                ret[i].industry_category = Str(classify_industry_from_name(ret[i].name).industry_category)

\* C11 witness: a returned result classified by the fallback whose candidate name and
\* the query name fall in different categories.
C11_Witness ==
    /\ pc = "done"
    /\ \E i \in 1..Len(ret) :
          /\ ByNameFallback(ret[i])
          /\ classify_industry_from_name(ret[i].name).industry_category
                 # classify_industry_from_name(company_name).industry_category

----------------------------------------------------------------------------
(* get_enhanced_submissions_data(cik), called directly *)

\* the longest recent-filings list
MaxFilings == 3

FetchCiks == {"1518449", "0001518449", ""}

FormLists == UNION {[1..n -> {"D", "10-K"}] : n \in 0..MaxFilings}

\* accession lists for n filings: index-aligned or one short, any entries empty
AccessionLists(n) ==
    UNION {{[i \in 1..m |-> IF i \in S THEN "" ELSE Accessions[i]] : S \in SUBSET (1..m)} :
              m \in {n, n - 1} \cap (0..n)}

FilingsVariants ==
    {NoFilings}
    \union UNION {{Filings(f, a) : a \in AccessionLists(Len(f))} : f \in FormLists}
    \union {[present |-> TRUE, form |-> f, accessionNumber |-> <<>>, hasAccession |-> FALSE] :
               f \in FormLists}

InitFetch ==
    /\ entry = "get_enhanced_submissions_data"
    /\ pc = "enhanced_sleep"
    /\ error = ""
    /\ company_name = ""
    /\ include_cik = None
    /\ directory = <<>>
    /\ cik \in FetchCiks
    /\ \E v \in FilingsVariants :
          db = [c \in {Zfill(cik, CikWidth)} |->
                   Profile(Str("Hexify Inc"), <<>>, Missing, Missing, v)]
    /\ companies_data = [k |-> "none"]
    /\ cik_result = [k |-> "none"]
    /\ public_matches = <<>>
    /\ fetched = <<>>
    /\ idx = 0
    /\ all_results = <<>>
    /\ submissions_data = [k |-> "none"]
    /\ accession_number = ""
    /\ url_i = 0
    /\ slept = FALSE
    /\ last_request = NoRequest
    /\ tried = <<>>
    /\ parse_calls = <<>>
    /\ ret = [k |-> "none"]

NextFetch ==
    \/ MakeRequestSleep
    \/ GetEnhancedSubmissionsData
    \/ ParseFormDFiling

SpecFetch == InitFetch /\ [][NextFetch]_vars

----------------------------------------------------------------------------
(* Properties of get_enhanced_submissions_data and parse_form_d_filing, checked under SpecFetch *)

\* which of the three candidate document locations a URL is
UrlKind(url) ==
    IF EndsWith(url, "/xslFormDX01/primary_doc.xml") THEN "structured-xml"
    ELSE IF EndsWith(url, "/primary_doc.xml") THEN "plain-xml"
         ELSE IF EndsWith(url, ".txt") THEN "legacy-text"
              ELSE "other"

\* C2: the document locations are requested in the order structured-XML, plain-XML,
\* legacy-text; one is requested only after every earlier one failed (non-200 status or
\* exception), and after a successful response no further location is requested.
C2_UrlOrder ==
    /\ Len(tried) <= 3
    /\ \A i \in 1..Len(tried) :
          /\ UrlKind(tried[i].url) = <<"structured-xml", "plain-xml", "legacy-text">>[i]
          /\ i < Len(tried) => tried[i].k \in {"status", "exception"}
    /\ pc = "formd_get" =>
          /\ \A i \in 1..Len(tried) : tried[i].k # "ok"
          /\ url_i = Len(tried) + 1

\* C2 witness: the second location answered 200 after the first failed, nothing was
\* extracted from it, and the third was never requested.
C2_Witness ==
    /\ pc = "done"
    /\ Len(tried) = 2
    /\ tried[1].k = "status"
    /\ tried[2].k = "ok"
    /\ ret.v.form_d_info = FormD(EmptyFormD)

\* the received profile's form-type and accession lists are index-aligned
Aligned(f) == f.present /\ f.hasAccession /\ Len(f.accessionNumber) = Len(f.form)

\* the least element of a non-empty set of numbers
Least(S) == CHOOSE x \in S : \A y \in S : x <= y

\* C3 as stated: a profile with at least one "D" entry gets exactly one parser call, with
\* the accession reference at the index of the first "D" entry; a profile with none gets
\* no call.  (Stated for index-aligned lists, after the scan of the profile.)
C3_FirstDParsedOnce ==
    (pc \in {"formd_get", "done"} /\ submissions_data.k = "dict"
        /\ Aligned(submissions_data.v.filings)) =>
        LET f == submissions_data.v.filings
            ds == {i \in 1..Len(f.form) : f.form[i] = "D"}
        IN  IF ds = {} THEN parse_calls = <<>>
            ELSE /\ Len(parse_calls) = 1
                 /\ parse_calls[1].accession_number = f.accessionNumber[Least(ds)]

\* C3 amended: for index-aligned lists the parser is called at most once: exactly once
\* when some "D" entry has a non-empty accession reference, with the reference of the
\* first such entry ("D" entries with an empty reference are passed over), and never
\* when no "D" entry has one or the fetch failed.
C3_FirstUsableDParsedOnce ==
    /\ Len(parse_calls) <= 1
    /\ (pc \in {"formd_get", "done"} /\ submissions_data.k = "none") => parse_calls = <<>>
    /\ (pc \in {"formd_get", "done"} /\ submissions_data.k = "dict"
           /\ ~submissions_data.v.filings.present) => parse_calls = <<>>
    /\ (pc \in {"formd_get", "done"} /\ submissions_data.k = "dict"
           /\ Aligned(submissions_data.v.filings)) =>
           LET f == submissions_data.v.filings
               ds == {i \in 1..Len(f.form) : f.form[i] = "D" /\ f.accessionNumber[i] # ""}
           IN  IF ds = {} THEN parse_calls = <<>>
               ELSE /\ Len(parse_calls) = 1
                    /\ parse_calls[1].accession_number = f.accessionNumber[Least(ds)]
                    /\ parse_calls[1].cik = cik

\* C3 witness: three "D" entries, the first without an accession reference: the parser
\* was called once, with the reference of the second, and the third was ignored.
C3_Witness ==
    /\ pc = "done"
    /\ submissions_data.k = "dict"
    /\ submissions_data.v.filings.form = <<"D", "D", "D">>
    /\ submissions_data.v.filings.accessionNumber = <<"", Accessions[2], Accessions[3]>>
    /\ parse_calls = <<[cik |-> cik, accession_number |-> Accessions[2]]>>

----------------------------------------------------------------------------
(* search_by_cik_direct(cik) and get_enhanced_submissions_data(cik) over identifiers *)

\* the longest identifier
MaxCikLen == 11

IdentifierDigits == {"15184491518449", "00001518449001"}

Identifiers ==
    {SubSeq(d, 1, n) : d \in IdentifierDigits, n \in 0..Min(MaxCikLen, 14)}

CikProfiles ==
    { Profile(Str("Tesla, Inc."), <<"TSLA", "TL0">>, Str("3711"), Missing, NoFilings),
      Profile(Missing, <<>>, Missing, Missing, Filings(<<"D">>, <<Accessions[1]>>)) }

InitCik ==
    /\ entry \in {"search_by_cik_direct", "get_enhanced_submissions_data"}
    /\ pc = IF entry = "search_by_cik_direct" THEN "cik_sleep" ELSE "enhanced_sleep"
    /\ error = ""
    /\ company_name = ""
    /\ include_cik = None
    /\ directory = <<>>
    /\ cik \in Identifiers
    /\ \E p \in CikProfiles : db = [c \in {Zfill(cik, CikWidth)} |-> p]
    /\ companies_data = [k |-> "none"]
    /\ cik_result = [k |-> "none"]
    /\ public_matches = <<>>
    /\ fetched = <<>>
    /\ idx = 0
    /\ all_results = <<>>
    /\ submissions_data = [k |-> "none"]
    /\ accession_number = ""
    /\ url_i = 0
    /\ slept = FALSE
    /\ last_request = NoRequest
    /\ tried = <<>>
    /\ parse_calls = <<>>
    /\ ret = <<>>

NextCik ==
    \/ MakeRequestSleep
    \/ SearchByCikDirect
    \/ GetEnhancedSubmissionsData
    \/ ParseFormDFiling

SpecCik == InitCik /\ [][NextCik]_vars

\* C9: the identifier in the profile-service path is the input identifier left-padded
\* with zeros to exactly 10 characters when shorter, and the input unchanged when it has
\* 10 or more; the candidate search_by_cik_direct returns carries that identifier.
C9_ZeroPadded ==
    (last_request # NoRequest /\ tried = <<>>) =>
        LET pre == "https://data.sec.gov/submissions/CIK"
            suf == ".json"
            url == last_request.url
            p   == SubSeq(url, Len(pre) + 1, Len(url) - Len(suf))
        IN  /\ url = pre \o p \o suf
            /\ Len(p) = (IF Len(cik) < 10 THEN 10 ELSE Len(cik))
            /\ SubSeq(p, Len(p) - Len(cik) + 1, Len(p)) = cik
            /\ \A i \in 1..(Len(p) - Len(cik)) : SubSeq(p, i, i) = "0"
            /\ (entry = "search_by_cik_direct" /\ pc = "done" /\ ret # <<>>) => ret[1].cik = p

\* C9 witness: "1518449" was looked up as "0001518449" and the candidate carries it.
C9_Witness ==
    /\ entry = "search_by_cik_direct"
    /\ pc = "done"
    /\ cik = "1518449"
    /\ last_request.url = "https://data.sec.gov/submissions/CIK0001518449.json"
    /\ ret # <<>>
    /\ ret[1].cik = "0001518449"

----------------------------------------------------------------------------
(* extract_comprehensive_industry_info(submissions_data, company_name), called directly *)

\* how far past the truncation length the descriptions go
MaxOver == 2

DescriptionLengths == {0, 1, DescLimit - 1, DescLimit} \union ((DescLimit + 1)..(DescLimit + MaxOver))

ClassifyDescriptions ==
    {Missing, None, Str("Makes things...")} \union {Str(Text(n)) : n \in DescriptionLengths}

ClassifySics == {Missing, Str(""), Str("7372"), Str("9999")}

ClassifyFormDs ==
    { NoFormD,
      FormD(EmptyFormD),
      FormD([EmptyFormD EXCEPT !.industry_category = Str("")]),
      FormD([EmptyFormD EXCEPT !.industry_category = Str("Healthcare"),
                               !.offering_amount = Str("1,000")]) }

InitClassify ==
    /\ entry = "extract_comprehensive_industry_info"
    /\ pc = "extract"
    /\ error = ""
    /\ company_name \in {"Acme Cloud Systems", "Hexify"}
    /\ include_cik = None
    /\ directory = <<>>
    /\ db = <<>>
    /\ companies_data = [k |-> "none"]
    /\ cik_result = [k |-> "none"]
    /\ public_matches = <<>>
    /\ fetched = <<>>
    /\ idx = 0
    /\ all_results = <<>>
    /\ cik = ""
    /\ \E t \in {<<>>, <<"TSLA">>}, c \in ClassifySics, d \in ClassifyDescriptions,
          f \in ClassifyFormDs :
          submissions_data =
              [k |-> "dict",
               v |-> [Profile(Str("Hexify Inc"), t, c, d, NoFilings) EXCEPT !.form_d_info = f]]
    /\ accession_number = ""
    /\ url_i = 0
    /\ slept = FALSE
    /\ last_request = NoRequest
    /\ tried = <<>>
    /\ parse_calls = <<>>
    /\ ret = <<>>

NextClassify == ExtractComprehensiveIndustryInfo

SpecClassify == InitClassify /\ [][NextClassify]_vars

\* C1: the provenance tag is 'name_classification' exactly when the name-keyword
\* fallback fired, and 'submissions' otherwise; the fallback fires exactly when industry
\* code, industry category and business description are all absent (missing, null or
\* empty) from the input.
C1_FallbackIffAllAbsent ==
    pc = "done" =>
        LET d == submissions_data.v
            allAbsent == /\ ~Truthy(d.sic)
                         /\ ~Truthy(d.businessDescription)
                         /\ ~(d.form_d_info.k = "dict" /\ Truthy(d.form_d_info.v.industry_category))
            fired == ret.confidence # Missing
        IN  /\ ret.source \in {"submissions", "name_classification"}
            /\ ret.source = "name_classification" <=> fired
            /\ fired <=> allAbsent

\* C5 as stated: a description longer than 300 characters is stored with length
\* 301 + the ellipsis marker's length, ending with the marker; a description of 300
\* characters or fewer is stored verbatim.
C5_TruncatedTo301 ==
    (pc = "done" /\ submissions_data.v.businessDescription.k = "str") =>
        LET t == submissions_data.v.businessDescription.v
            st == ret.business_description
        IN  IF Len(t) > 300
            THEN /\ st.k = "str"
                 /\ Len(st.v) = 301 + Len("...")
                 /\ EndsWith(st.v, "...")
            ELSE st = Str(t)

\* C5 amended: a description longer than 300 characters is stored as its first 300
\* characters followed by the ellipsis marker (length 300 + the marker's length); a
\* description of 300 characters or fewer is stored verbatim.
C5_TruncatedTo300 ==
    (pc = "done" /\ submissions_data.v.businessDescription.k = "str") =>
        LET t == submissions_data.v.businessDescription.v
            st == ret.business_description
        IN  IF Len(t) > 300
            THEN /\ st.k = "str"
                 /\ Len(st.v) = 300 + Len("...")
                 /\ EndsWith(st.v, "...")
                 /\ SubSeq(st.v, 1, 300) = SubSeq(t, 1, 300)
            ELSE st = Str(t)

\* C5 witness: a description of 301 characters stored with 303, and one of 300 verbatim.
C5_Witness ==
    /\ pc = "done"
    /\ submissions_data.v.businessDescription.k = "str"
    /\ Len(submissions_data.v.businessDescription.v) = 301
    /\ Len(ret.business_description.v) = 303

----------------------------------------------------------------------------
(* classify_industry_from_name(company_name), called directly *)

\* the longest name, in words
MaxWords == 2

NameWords ==
    {"Acme", "Cloud", "Systems", "BANK", "Health", "Hexify", "Shop", "Brewery", "Film", "Detail"}

RECURSIVE NamesOf(_)
\* the names of up to n words
NamesOf(n) ==
    IF n = 0 THEN {""}
    ELSE LET shorter == NamesOf(n - 1)
         IN  shorter \union {IF m = "" THEN w ELSE m \o " " \o w : m \in shorter, w \in NameWords}

Names == NamesOf(MaxWords) \union {"Acme Cloud Systems"}

InitName ==
    /\ entry = "classify_industry_from_name"
    /\ pc = "classify"
    /\ error = ""
    /\ company_name \in Names
    /\ include_cik = None
    /\ directory = <<>>
    /\ db = <<>>
    /\ companies_data = [k |-> "none"]
    /\ cik_result = [k |-> "none"]
    /\ public_matches = <<>>
    /\ fetched = <<>>
    /\ idx = 0
    /\ all_results = <<>>
    /\ cik = ""
    /\ submissions_data = [k |-> "none"]
    /\ accession_number = ""
    /\ url_i = 0
    /\ slept = FALSE
    /\ last_request = NoRequest
    /\ tried = <<>>
    /\ parse_calls = <<>>
    /\ ret = <<>>

NextName == ClassifyIndustryFromName

SpecName == InitName /\ [][NextName]_vars

\* the categories in the table's iteration order
CategoryOrder ==
    << "Technology", "Financial Services", "Healthcare", "Retail", "Energy", "Manufacturing",
       "Food & Beverage", "Real Estate", "Transportation", "Media" >>

\* category number i has a keyword that is a substring of the lower-cased name
CategoryMatches(i, name) ==
    \E j \in 1..Len(industry_keywords[i].keywords) :
        Contains(industry_keywords[i].keywords[j], Lower(name))

\* C10: the result is the first category, in the order Technology, Financial Services,
\* Healthcare, Retail, Energy, Manufacturing, Food & Beverage, Real Estate,
\* Transportation, Media, one of whose keywords is a substring of the lower-cased name,
\* with confidence medium; 'Unknown' with confidence low when no category has one.
C10_FirstCategoryWins ==
    pc = "done" =>
        /\ Len(industry_keywords) = Len(CategoryOrder)
        /\ \A i \in 1..Len(CategoryOrder) :
              /\ industry_keywords[i].industry = CategoryOrder[i]
              /\ (CategoryMatches(i, company_name) /\ \A j \in 1..(i - 1) : ~CategoryMatches(j, company_name))
                    => ret = [industry_category |-> CategoryOrder[i], confidence |-> "medium"]
        /\ (\A i \in 1..Len(CategoryOrder) : ~CategoryMatches(i, company_name))
              => ret = [industry_category |-> "Unknown", confidence |-> "low"]
        /\ company_name = "Acme Cloud Systems"
              => ret = [industry_category |-> "Technology", confidence |-> "medium"]

\* C10 witness: an upper-case name with keywords of Financial Services and Food &
\* Beverage classified as the earlier of the two.
C10_Witness ==
    /\ pc = "done"
    /\ company_name = "Brewery BANK"
    /\ CategoryMatches(2, company_name)
    /\ CategoryMatches(7, company_name)
    /\ ret = [industry_category |-> "Financial Services", confidence |-> "medium"]

====
